---- MODULE Spec2Model ----
(***************************************************************************)
(* Q&A frontend: the application view (App), the persisted history hook    *)
(* (useLocalStorage), the pending askQuestion calls and the answer-fetch   *)
(* client (services/api), as a state machine.                              *)
(* Strings are sequences of characters (questions, answers) or of words    *)
(* (error messages); "" is the empty sequence.                             *)
(***************************************************************************)
EXTENDS Integers, Sequences, FiniteSets, TLC

VARIABLES
    question,    \* App state: the question field
    answer,      \* App state: the currently displayed answer
    loading,     \* App state: loading flag
    error,       \* App state: error message
    history,     \* useLocalStorage value: list of entries, newest first
    stored,      \* content of localStorage under 'qa_history'
    pending,     \* askQuestion calls in flight, each with its handleSubmit closure
    nextId,      \* source of fresh entry ids (Date.now()+random): 1 + the
                 \* number of entries created so far
    last,        \* the handler that ran last, with the outcome of askQuestion
                 \* when it was the continuation of handleSubmit
    failedQ,     \* question passed to askQuestion by the submission whose
                 \* error is showing
    writeOk,     \* whether the last localStorage.setItem succeeded
    writeFailures, \* number of localStorage.setItem calls that threw so far
    uncaught,    \* exception that left the code of the hook or of the view
                 \* uncaught and took the page down ("none": the view is up)
    valueKind,   \* what the hook's value is: "array" (history holds its
                 \* entries), or "string", "object", "null" read from storage
    env,         \* process.env.REACT_APP_API_URL as the bundle was built with
    client,      \* the askQuestion call of services/api: its stage, timers,
                 \* HTTP exchange and result
    seen         \* what the mock client resolved so far: the question, the
                 \* answer, and whether the question had been asked before

(* State of the view and of the hook *)
appVars == <<question, answer, loading, error, history, stored, pending,
             nextId, last, failedQ, writeOk, writeFailures, uncaught,
             valueKind>>

(* State of the answer-fetch client *)
apiVars == <<env, client, seen>>

vars == <<appVars, apiVars>>

----------------------------------------------------------------------------
(* Bounds of the model *)

MaxSubmits == 2         \* askQuestion calls in flight or resolved, per behaviour
MaxInitLen == 1         \* longest short history found in storage at mount
MaxWriteFailures == 1   \* throwing localStorage.setItem calls per behaviour

(* Cap on the history the specification and the tests state *)
HistoryCap == 200

----------------------------------------------------------------------------
(* Strings: questions and answers are sequences of characters, messages are
   sequences of words and punctuation marks *)

EmptyStr == <<>>

Whitespace == {" ", "\n"}

RECURSIVE TrimStart(_)
TrimStart(s) ==
    IF s # <<>> /\ Head(s) \in Whitespace THEN TrimStart(Tail(s)) ELSE s

RECURSIVE TrimEnd(_)
TrimEnd(s) ==
    IF s # <<>> /\ s[Len(s)] \in Whitespace
    THEN TrimEnd(SubSeq(s, 1, Len(s) - 1)) ELSE s

(* Mutant: removes the leading whitespace only *)
TrimLeadingOnly(s) == TrimStart(s)

(* String.prototype.trim *)
Trim(s) == TrimEnd(TrimStart(s))

(* s contains sub as a contiguous run *)
Contains(s, sub) ==
    \E i \in 1..(Len(s) - Len(sub) + 1) : SubSeq(s, i, i + Len(sub) - 1) = sub

(* What the user may put in the question field *)
QuestionInputs ==
    { <<>>, <<" ">>, <<" ", "a", "\n">>, <<"b">> }

(* What askQuestion may resolve to *)
Responses == { <<>>, <<"B">> }

FallbackMessage ==
    <<"Failed", "to", "get", "an", "answer", ".", "Please", "try", "again", ".">>

FailedPhrase == <<"Failed", "to", "get", "an", "answer">>

(* Values askQuestion may reject with: an Error with a message, an Error with
   an empty message, a thrown value without a string message *)
Rejections ==
    { [hasMessage |-> TRUE,  message |-> <<"Network">>],
      [hasMessage |-> TRUE,  message |-> <<>>],
      [hasMessage |-> FALSE, message |-> <<>>] }

Timestamps == {1}

----------------------------------------------------------------------------
(* localStorage content and JSON *)

Absent  == [kind |-> "absent",  val |-> <<>>]
Corrupt == [kind |-> "corrupt", val |-> <<>>]

(* A storage whose getItem throws (disabled or denied) *)
Unreadable == [kind |-> "unreadable", val |-> <<>>]

(* Mutant: the timestamp of an entry is not written *)
StringifyEntryNoTimestamp(e) ==
    << [key |-> "id",       value |-> e.id],
       [key |-> "question", value |-> e.question],
       [key |-> "answer",   value |-> e.answer] >>

(* JSON.stringify of one entry: its members in the order of the object
   literal, each a key and the text of its value *)
StringifyEntry(e) ==
    << [key |-> "id",        value |-> e.id],
       [key |-> "question",  value |-> e.question],
       [key |-> "answer",    value |-> e.answer],
       [key |-> "timestamp", value |-> e.timestamp] >>

(* JSON.parse of one object: a record of its keys, a repeated key taking its
   last value *)
ParseEntry(members) ==
    LET n == Len(members)
        lastOf(k) == CHOOSE i \in 1..n :
                        /\ members[i].key = k
                        /\ \A j \in (i + 1)..n : members[j].key # k
    IN  [k \in { members[i].key : i \in 1..n } |-> members[lastOf(k)].value]

(* JSON.stringify of a list of entries *)
JSONstringify(v) ==
    [kind |-> "json", val |-> [i \in 1..Len(v) |-> StringifyEntry(v[i])]]

(* JSON.parse of the text of a list of entries *)
JSONparse(text) == [i \in 1..Len(text) |-> ParseEntry(text[i])]

(* Content that is JSON but no array: null, the empty string "", and the
   object {"length":0}; none has elements *)
NullJson == [kind |-> "null", val |-> <<>>]

EmptyStringJson == [kind |-> "string", val |-> <<>>]

ArrayLikeJson == [kind |-> "object", val |-> <<>>]

NonArrayJson == {NullJson, EmptyStringJson, ArrayLikeJson}

(* JSON.stringify of the hook's value; a value that is no array is written
   back as it was read *)
StringifyValue(kind, items) ==
    IF kind = "array" THEN JSONstringify(items) ELSE [kind |-> kind, val |-> <<>>]

(* useLocalStorage, the try block of the initial state: the value it returns
   or the exception it throws *)
TryRead(raw, initialValue) ==
    IF raw.kind = "unreadable"
    THEN [threw |-> "SecurityError", value |-> <<>>]
    ELSE IF raw.kind = "absent"
    THEN [threw |-> "none", value |-> initialValue]
    ELSE IF raw.kind = "corrupt"
    THEN [threw |-> "SyntaxError", value |-> <<>>]
    ELSE IF raw \in NonArrayJson
    THEN [threw |-> "none", value |-> <<>>]
    ELSE [threw |-> "none", value |-> JSONparse(raw.val)]

(* Mutant: only the parse error is caught *)
CatchesSyntaxErrorOnly(exception) == exception = "SyntaxError"

(* The catch clause of the initial state has no binding and no rethrow *)
Catches(exception) == TRUE

(* useLocalStorage, initial state: the stored value, or initialValue when the
   key is missing, JSON.parse throws or getItem throws *)
ReadStorage(raw, initialValue) ==
    LET r == TryRead(raw, initialValue)
    IN  IF r.threw = "none" THEN r.value ELSE initialValue

(* What kind of value the initial state is: JSON.parse returns whatever the
   text denotes, the default is the array the view passes *)
ReadKind(raw) ==
    IF raw \in NonArrayJson THEN raw.kind ELSE "array"

(* The exception the initial state lets through, "none" when there is none *)
ReadEscape(raw, initialValue) ==
    LET r == TryRead(raw, initialValue)
    IN  IF r.threw # "none" /\ ~Catches(r.threw) THEN r.threw ELSE "none"

(* Mutant: the persist effect never writes *)
PersistNever(value, old, ok) == old

(* Mutant: an empty list is not written *)
PersistSkipsEmpty(value, old, ok) ==
    IF ok /\ value # <<>> THEN JSONstringify(value) ELSE old

(* useLocalStorage, persist effect: setItem(key, JSON.stringify(value)); a
   throwing setItem is swallowed and leaves the stored content as it was *)
Persist(value, old, ok) == IF ok THEN JSONstringify(value) ELSE old

(* Mutant: the error of setItem is thrown again *)
PersistRethrows(exception) == FALSE

(* The catch clause of the persist effect has no binding and no rethrow *)
PersistCatches(exception) == TRUE

(* The exception the persist effect lets through when setItem throws (ok is
   FALSE), "none" when there is none *)
WriteEscape(ok) ==
    IF ~ok /\ ~PersistCatches("QuotaExceededError")
    THEN "QuotaExceededError" ELSE "none"

----------------------------------------------------------------------------
(* History entries *)

(* A history of n entries as an earlier session persisted it: newest first,
   ids unique (-1, -2, ...: this session's ids are 1, 2, ...), timestamps not
   in list order *)
StoredHistory(n) ==
    [i \in 1..n |->
        [id        |-> i - n - 1,
         question  |-> IF i % 2 = 1 THEN <<"a">> ELSE <<"b">>,
         answer    |-> <<"A">>,
         timestamp |-> (i % 2) + 1]]

(* What localStorage may hold under 'qa_history' when the page loads: nothing,
   text that is no JSON, or a short history; or it cannot be read *)
InitialStorage ==
    {Absent, Corrupt, Unreadable} \cup NonArrayJson \cup
    { JSONstringify(StoredHistory(n)) : n \in 0..MaxInitLen }

(* Storage of the runs of the view on services/api *)
WiredStorage == {Absent}

(* What it holds when the stored history has reached the cap *)
FullStorage == { JSONstringify(StoredHistory(HistoryCap)) }

RemoveAt(s, i) == SubSeq(s, 1, i - 1) \o SubSeq(s, i + 1, Len(s))

(* Mutant: the new entry goes to the end of the list *)
AppendEntry(entry, prev) == prev \o <<entry>>

(* Mutant: the list is kept sorted by timestamp, newest first *)
InsertByTimestamp(entry, prev) ==
    LET older == { i \in 1..Len(prev) : prev[i].timestamp <= entry.timestamp }
        k == IF older = {} THEN Len(prev) + 1
             ELSE CHOOSE i \in older : \A j \in older : i <= j
    IN  SubSeq(prev, 1, k - 1) \o <<entry>> \o SubSeq(prev, k, Len(prev))

(* handleSubmit: setHistory((prev) => [entry, ...prev]) *)
PrependEntry(entry, prev) == <<entry>> \o prev

(* history.find((h) => h.id === entryId): index of the first match, 0 if none *)
FindIndex(h, entryId) ==
    LET hits == { i \in 1..Len(h) : h[i].id = entryId }
    IN  IF hits = {} THEN 0 ELSE CHOOSE i \in hits : \A j \in hits : i <= j

(* prev.filter((h) => h.id !== entryId) *)
FilterOutId(h, entryId) ==
    LET Keep(e) == e.id # entryId IN SelectSeq(h, Keep)

(* The entries the user acts on in the sidebar: those of this session, the
   newest stored ones and the oldest of a full stored history *)
ClickTargets ==
    (1..MaxSubmits) \cup ((-MaxInitLen)..(-1)) \cup {-HistoryCap}

ClickableIds == { history[i].id : i \in 1..Len(history) } \cap ClickTargets

(* An id that no entry has *)
NoSuchId == nextId

----------------------------------------------------------------------------
(* services/api: configuration, values and messages *)

(* process.env.REACT_APP_API_URL: not set, set to the empty string, set to
   the base URL of a backend *)
Unset == [defined |-> FALSE, value |-> ""]

EnvValues ==
    { Unset,
      [defined |-> TRUE, value |-> ""],
      [defined |-> TRUE, value |-> "http://backend/"] }

(* Mutant: an unset variable is read as the text 'undefined' *)
API_BASE_Unchecked(e) == IF e.defined THEN e.value ELSE "undefined"

(* API_BASE = (process && process.env && process.env.REACT_APP_API_URL) || '' *)
API_BASE(e) == IF e.defined /\ e.value # "" THEN e.value ELSE ""

(* export const isMock = !API_BASE *)
isMock == API_BASE(env) = ""

(* The argument of askQuestion: a string, or a value of another type that is
   falsy (null, undefined, 0) or truthy (42, an object) *)
StringArg(s) == [isString |-> TRUE, truthy |-> s # <<>>, s |-> s]

NullArg == [isString |-> FALSE, truthy |-> FALSE, s |-> <<>>]

NumberArg == [isString |-> FALSE, truthy |-> TRUE, s |-> <<>>]

ApiArgs ==
    { StringArg(<<>>), NullArg, NumberArg, StringArg(<<"a">>),
      StringArg(<<"b">>) }

(* Mutant: the type of the argument is not looked at *)
IsTruthyQuestion(arg) == arg.truthy

(* askQuestion throws when !question || typeof question !== 'string' *)
IsValidQuestion(arg) == ~(~arg.truthy \/ ~arg.isString)

InvalidInputMessage ==
    <<"Question", "must", "be", "a", "non-empty", "string", ".">>

TimedOutMessage ==
    <<"Request", "timed", "out", "after", "30", "seconds", ".", "Please",
      "try", "again", ".">>

NetworkMessage ==
    <<"Network", "error", ".", "Please", "check", "your", "connection",
      "and", "try", "again", ".">>

GenericMessage ==
    <<"Something", "went", "wrong", "while", "contacting", "the", "server",
      ".", "Please", "try", "again", ".">>

MalformedMessage ==
    <<"Malformed", "response", ":", "expected", "JSON", "with", "an",
      "\"answer\"", "string", "field", ".">>

(* Thrown values: fetch and the body readers reject with an AbortError when
   the signal aborts, fetch rejects with a TypeError when the network fails,
   res.json() with a SyntaxError on text that is no JSON *)
AbortError ==
    [name |-> "AbortError", isTypeError |-> FALSE,
     message |-> <<"The", "operation", "was", "aborted", ".">>]

FetchTypeError ==
    [name |-> "TypeError", isTypeError |-> TRUE,
     message |-> <<"Failed", "to", "fetch">>]

JsonSyntaxError ==
    [name |-> "SyntaxError", isTypeError |-> FALSE,
     message |-> <<"Unexpected", "token">>]

NewError(message) ==
    [name |-> "Error", isTypeError |-> FALSE, message |-> message]

(* The words of the messages, status texts and bodies used here that
   /aborted|AbortError|timeout/i matches *)
AbortPatternWords == {"aborted", "AbortError", "timeout", "Timeout"}

(* /aborted|AbortError|timeout/i.test(message) *)
MatchesAbortPattern(message) ==
    \E k \in 1..Len(message) : message[k] \in AbortPatternWords

(* toUserFriendlyError: the message of the Error it returns *)
toUserFriendlyError(err) ==
    IF err.name = "AbortError" \/ MatchesAbortPattern(err.message)
    THEN TimedOutMessage
    ELSE IF err.isTypeError THEN NetworkMessage
    ELSE GenericMessage

(* Response heads: ok, status and status text, and whether the content-type
   header includes application/json *)
NoResponse ==
    [arrived |-> FALSE, ok |-> FALSE, status |-> "", statusText |-> <<>>,
     json |-> FALSE]

HttpResponses ==
    { [arrived |-> TRUE, ok |-> st[1], status |-> st[2], statusText |-> st[3],
       json |-> j] :
        st \in { <<TRUE, "200", <<"OK">>>>,
                 <<FALSE, "500", <<"Internal", "Server", "Error">>>>,
                 <<FALSE, "504", <<"Gateway", "Timeout">>>> },
        j \in BOOLEAN }

(* A field of a parsed JSON body: missing, a string, or a number *)
NoField == [type |-> "undefined", s |-> <<>>]

StringField(s) == [type |-> "string", s |-> s]

NumberField == [type |-> "number", s |-> <<>>]

(* Response bodies: the text, whether JSON.parse accepts it, and the parsed
   value (null, or an object with its answer, message and error fields) *)
NoBody ==
    [arrived |-> FALSE, text |-> <<>>, parses |-> FALSE, isNull |-> FALSE,
     answer |-> NoField, message |-> NoField, error |-> NoField]

JsonBody(a, m, e) ==
    [arrived |-> TRUE, text |-> <<"{...}">>, parses |-> TRUE,
     isNull |-> FALSE, answer |-> a, message |-> m, error |-> e]

NullBody ==
    [arrived |-> TRUE, text |-> <<"null">>, parses |-> TRUE, isNull |-> TRUE,
     answer |-> NoField, message |-> NoField, error |-> NoField]

TextBody(words) ==
    [arrived |-> TRUE, text |-> words, parses |-> FALSE, isNull |-> FALSE,
     answer |-> NoField, message |-> NoField, error |-> NoField]

HttpBodies ==
    { JsonBody(StringField(<<"B">>), NoField, NoField),
      JsonBody(StringField(<<>>), NoField, NoField),
      JsonBody(NumberField, NoField, NoField),
      JsonBody(NoField, StringField(<<"boom">>), NoField),
      JsonBody(NoField, StringField(<<>>), StringField(<<"bad">>)),
      JsonBody(NoField, NoField, NoField),
      NullBody,
      TextBody(<<"oops">>),
      TextBody(<<>>) }

----------------------------------------------------------------------------
(* services/api: one askQuestion call *)

NoResult == [kind |-> "none", value |-> <<>>, message |-> <<>>, source |-> ""]

(* The promise resolves with value, built by the mock or read from the
   server's response *)
Resolve(value, source) ==
    [kind |-> "resolved", value |-> value, message |-> <<>>,
     source |-> source]

(* The promise rejects with an Error of this message *)
Reject(message) ==
    [kind |-> "rejected", value |-> <<>>, message |-> message, source |-> ""]

(* No call yet.  stage: "idle", "latency" (mock timer running), "fetching"
   (POST sent, no response yet), "reading" (response head received, body
   being read), "settled"; posts and latencyTimers count the fetch calls and
   the mock timers of the call; timer is the 30 s abort timer *)
IdleClient ==
    [stage |-> "idle", arg |-> NullArg, posts |-> 0, latencyTimers |-> 0,
     timer |-> "none", response |-> NoResponse, body |-> NoBody,
     result |-> NoResult]

(* askQuestion is not the one of services/api *)
Stubbed == [IdleClient EXCEPT !.stage = "stubbed"]

(* Mutant: the placeholder does not quote the question *)
MockAnswerFixed(q) ==
    <<"This is a placeholder answer.">>

(* askQuestionMock: the placeholder answer *)
MockAnswer(q) ==
    <<"This is a placeholder answer for: \"">> \o q \o
    <<"\". Integrate with your backend API to return real agent responses.">>

(* The call settles; finally { clearTimeout(timeoutId) } *)
Settle(c, result) ==
    [c EXCEPT !.stage = "settled", !.result = result,
              !.timer = IF c.timer = "armed" THEN "cleared" ELSE c.timer]

(* askQuestion(question) up to its first await: the validation, then the mock
   timer, or the abort timer and the POST *)
StartCall(arg) ==
    IF ~IsValidQuestion(arg)
    THEN [IdleClient EXCEPT !.stage = "settled", !.arg = arg,
                            !.result = Reject(InvalidInputMessage)]
    ELSE IF isMock
    THEN [IdleClient EXCEPT !.stage = "latency", !.arg = arg,
                            !.latencyTimers = 1]
    ELSE [IdleClient EXCEPT !.stage = "fetching", !.arg = arg,
                            !.timer = "armed", !.posts = 1]

(* askQuestionMock after its 800 ms timer *)
AfterLatency(c) == Settle(c, Resolve(MockAnswer(c.arg.s), "mock"))

(* Mutant: a failed fetch is sent once more before the call rejects *)
AfterFetchRejectsRetrying(c, err) ==
    IF c.posts < 2 THEN [c EXCEPT !.posts = c.posts + 1]
    ELSE Settle(c, Reject(toUserFriendlyError(err)))

(* askQuestionReal: fetch rejected with err *)
AfterFetchRejects(c, err) == Settle(c, Reject(toUserFriendlyError(err)))

(* Mutant: the abort timer is cleared when the response head arrives *)
AfterHeadersClearsTimer(c, resp) ==
    [c EXCEPT !.stage = "reading", !.response = resp, !.timer = "cleared"]

(* askQuestionReal: fetch resolved with the response head *)
AfterHeaders(c, resp) == [c EXCEPT !.stage = "reading", !.response = resp]

(* The non-ok branch: the server's message, '' when the body reader throws *)
ServerMessage(resp, body) ==
    IF ~body.arrived THEN <<>>
    ELSE IF resp.json
    THEN IF ~body.parses \/ body.isNull THEN <<>>
         ELSE IF body.message.type = "string" /\ body.message.s # <<>>
         THEN body.message.s
         ELSE IF body.error.type = "string" /\ body.error.s # <<>>
         THEN body.error.s
         ELSE <<>>
    ELSE body.text

(* `Request failed: ${res.status} ${res.statusText}` and the detail *)
RequestFailedMessage(resp, serverMessage) ==
    <<"Request", "failed", ":", resp.status>> \o resp.statusText \o
    (IF serverMessage # <<>> THEN <<"-">> \o serverMessage ELSE <<>>)

(* The non-ok branch throws inside the try block: its error goes through the
   catch clause *)
NonOkRejection(resp, body) ==
    toUserFriendlyError(
        NewError(RequestFailedMessage(resp, ServerMessage(resp, body))))

(* Mutant: any parsed body resolves, with its answer field as it is *)
OkOutcomeUnchecked(body) ==
    IF ~body.parses THEN Reject(toUserFriendlyError(JsonSyntaxError))
    ELSE Resolve(body.answer.s, "server")

(* The ok branch once the body is read: data = await res.json(), the shape
   check, return data.answer *)
OkOutcome(body) ==
    IF ~body.parses THEN Reject(toUserFriendlyError(JsonSyntaxError))
    ELSE IF body.isNull \/ body.answer.type # "string"
    THEN Reject(toUserFriendlyError(NewError(MalformedMessage)))
    ELSE Resolve(body.answer.s, "server")

(* askQuestionReal: the body of the response has been read *)
AfterBody(c, body) ==
    Settle([c EXCEPT !.body = body],
           IF c.response.ok THEN OkOutcome(body)
           ELSE Reject(NonOkRejection(c.response, body)))

(* The 30 s timer fires and aborts: fetch, or the body reader, rejects with
   an AbortError; in the non-ok branch the reader's error is swallowed *)
AfterAbort(c) ==
    Settle([c EXCEPT !.timer = "fired"],
           IF c.stage = "reading" /\ ~c.response.ok
           THEN Reject(NonOkRejection(c.response, NoBody))
           ELSE Reject(toUserFriendlyError(AbortError)))

----------------------------------------------------------------------------
(* Application view.  Each action is one event handler (or the continuation
   of handleSubmit after its await) run to completion, followed by the render
   and the persist effect it causes: a handler reads the state of the latest
   render, and the continuation reads the question its closure captured when
   the submission started. *)

(* The record of a handler that ran: entryId is the id a history button was
   clicked with (0: none), response and message are what askQuestion resolved
   to or rejected with, raw is the kind of content the mount found in storage,
   field is the content of the question field that the continuation of a
   successful submission found *)
DidTo(op, entryId) ==
    [op |-> op, entryId |-> entryId, response |-> <<>>, message |-> <<>>,
     hasMessage |-> FALSE, raw |-> "", field |-> <<>>]

Did(op) == DidTo(op, 0)

(* Outcomes of a localStorage.setItem call: TRUE when it returns, FALSE when
   it throws *)
WriteOutcomes == IF writeFailures < MaxWriteFailures THEN BOOLEAN ELSE {TRUE}

Failed(ok) == IF ok THEN 0 ELSE 1

(* The render reads history.length: a TypeError on null *)
RenderThrows(kind) == kind = "null"

(* [entry, ...prev] throws a TypeError when prev is not iterable *)
SpreadThrows(kind) == kind \in {"object", "null"}

(* The view is up: no exception has unmounted it *)
Alive == uncaught = "none"

(* The first render on the storage content raw and its persist effect, whose
   setItem returns (ok) or throws.  A render that throws unmounts the view
   before any effect runs. *)
MountOf(raw, ok) ==
    LET value == ReadStorage(raw, <<>>)
        kind == ReadKind(raw)
        escape == ReadEscape(raw, <<>>)
        down == escape # "none" \/ RenderThrows(kind)
    IN  [history   |-> value,
         valueKind |-> kind,
         stored    |-> IF down \/ kind # "array" THEN raw
                       ELSE Persist(value, raw, ok),
         writeOk   |-> ~down /\ ok,
         failures  |-> IF down THEN 0 ELSE Failed(ok),
         uncaught  |-> IF escape # "none" THEN escape
                       ELSE IF RenderThrows(kind) THEN "TypeError"
                       ELSE WriteEscape(ok),
         last      |-> [Did("mount") EXCEPT !.raw = raw.kind]]

(* The state after the first render and its persist effect *)
Mounted(storage) ==
    \E raw \in storage, ok \in BOOLEAN :
        LET m == MountOf(raw, ok)
        IN  /\ writeFailures = m.failures
            /\ question = <<>>
            /\ answer = <<>>
            /\ loading = FALSE
            /\ error = <<>>
            /\ history = m.history
            /\ valueKind = m.valueKind
            /\ stored = m.stored
            /\ writeOk = m.writeOk
            /\ pending = <<>>
            /\ nextId = 1
            /\ last = m.last
            /\ failedQ = <<>>
            /\ uncaught = m.uncaught

(* services/api replaced by a stub, as the tests of the view do *)
StubbedApi ==
    /\ env = Unset
    /\ client = Stubbed
    /\ seen = {}

Init == Mounted(InitialStorage) /\ StubbedApi

InitFull == Mounted(FullStorage) /\ StubbedApi

(* Mutant: the loading flag is not part of the guard *)
CanSubmitIgnoresLoading == Trim(question) # <<>>

(* Mutant: any non-empty field counts as a question *)
CanSubmitNonEmpty == question # <<>> /\ ~loading

(* canSubmit = !!question.trim() && !loading *)
CanSubmit == Trim(question) # <<>> /\ ~loading

(* onChange of the textarea *)
SetQuestion ==
    \E s \in QuestionInputs :
        /\ Alive
        /\ s # question
        /\ question' = s
        /\ last' = Did("type")
        /\ UNCHANGED <<answer, loading, error, history, stored, pending, nextId,
                       failedQ, writeOk, writeFailures, uncaught, valueKind>>
        /\ UNCHANGED apiVars

(* An event whose handler returns at its guard *)
Ignored == UNCHANGED vars

(* handleSubmit up to its await: one askQuestion(question.trim()) is issued;
   the call runs in services/api unless the module is replaced by a stub *)
HandleSubmit(via) ==
    IF CanSubmit
    THEN /\ Alive
         /\ Len(pending) + nextId <= MaxSubmits
         /\ loading' = TRUE
         /\ error' = <<>>
         /\ answer' = <<>>
         /\ pending' = Append(pending, [question |-> question,
                                        asked |-> Trim(question)])
         /\ failedQ' = <<>>
         /\ last' = Did(via)
         /\ client' = IF client = Stubbed THEN client
                       ELSE StartCall(StringArg(Trim(question)))
         /\ UNCHANGED <<question, history, stored, nextId, writeOk,
                        writeFailures, uncaught, valueKind, env, seen>>
    ELSE Ignored

(* submit event of the form *)
SubmitForm == HandleSubmit("submit")

(* Enter in the textarea: handleSubmit only if canSubmit *)
OnTextareaKeyDown == IF CanSubmit THEN HandleSubmit("submit") ELSE Ignored

(* Mutant: retry does not look at the question field or the loading flag *)
RetryUnguarded == error # <<>> /\ Trim(question) # <<>>

(* The Retry button is rendered with the alert; retry returns when the
   question is blank or a request is loading *)
RetryPasses == error # <<>> /\ ~(Trim(question) = <<>> \/ loading)

Retry ==
    /\ error # <<>>
    /\ IF RetryPasses THEN HandleSubmit("retry") ELSE Ignored

(* Mutant: the error's message is shown as it is, without the fallback *)
ErrorMessageNoFallback(e) == e.message

(* catch: err.message when it is a non-empty string, else the fallback *)
ErrorMessage(e) ==
    IF e.hasMessage /\ e.message # <<>> THEN e.message ELSE FallbackMessage

(* Mutant: the entry takes the question from the field as it is now *)
EntryQuestionFromField(call) == Trim(question)

(* question.trim() in the continuation: the question of the render in which
   the submission started *)
EntryQuestion(call) == Trim(call.question)

(* handleSubmit after the await, the i-th pending askQuestion resolved with
   r at time ts; ok is the outcome of the storage write that follows *)
Resolved(i, r, ts, ok) ==
    LET call == pending[i]
        entry == [id        |-> nextId,
                  question  |-> EntryQuestion(call),
                  answer    |-> r,
                  timestamp |-> ts]
        next == PrependEntry(entry, history)
    IN  /\ Alive
        /\ pending' = RemoveAt(pending, i)
        /\ IF SpreadThrows(valueKind)
           THEN \* the updater throws in the render that follows the
                \* continuation (its finally has run): the view goes down
                \* with no entry added and nothing persisted
                /\ uncaught' = "TypeError"
                /\ loading' = FALSE
                /\ last' = Did("crash")
                /\ UNCHANGED <<question, answer, error, history, stored,
                               nextId, failedQ, writeOk, writeFailures,
                               valueKind>>
           ELSE /\ answer' = r
                /\ history' = next
                /\ valueKind' = "array"
                /\ stored' = Persist(next, stored, ok)
                /\ writeOk' = ok
                /\ question' = <<>>
                /\ loading' = FALSE
                /\ nextId' = nextId + 1
                /\ last' = [Did("success") EXCEPT !.response = r,
                                                  !.field = question]
                /\ writeFailures' = writeFailures + Failed(ok)
                /\ uncaught' = WriteEscape(ok)
                /\ UNCHANGED <<error, failedQ>>

(* The stub of askQuestion resolves a pending call *)
AskResolves ==
    \E i \in 1..Len(pending), r \in Responses, ts \in Timestamps,
       ok \in WriteOutcomes :
        Resolved(i, r, ts, ok) /\ UNCHANGED apiVars

(* handleSubmit after the await, the i-th pending askQuestion rejected with
   e *)
Rejected(i, e) ==
    LET call == pending[i]
    IN  /\ Alive
        /\ error' = ErrorMessage(e)
        /\ loading' = FALSE
        /\ pending' = RemoveAt(pending, i)
        /\ failedQ' = call.asked
        /\ last' = [Did("failure") EXCEPT !.message = e.message,
                                           !.hasMessage = e.hasMessage]
        /\ UNCHANGED <<question, answer, history, stored, nextId, writeOk,
                       writeFailures, uncaught, valueKind>>

(* The stub of askQuestion rejects a pending call *)
AskRejects ==
    \E i \in 1..Len(pending), e \in Rejections :
        Rejected(i, e) /\ UNCHANGED apiVars

(* Mutant: loading an entry leaves the error message *)
ErrorAfterLoadKept == error

(* loadFromHistory: setError('') *)
ErrorAfterLoad == <<>>

(* loadFromHistory(entryId) *)
LoadFromHistory ==
    \E entryId \in ClickableIds \cup {NoSuchId} :
        LET k == FindIndex(history, entryId)
        IN  /\ Alive
            /\ IF k = 0
               THEN Ignored
               ELSE /\ question' = history[k].question
                    /\ answer' = history[k].answer
                    /\ error' = ErrorAfterLoad
                    /\ failedQ' = <<>>
                    /\ last' = DidTo("load", entryId)
                    /\ UNCHANGED <<loading, history, stored, pending,
                                   nextId, writeOk, writeFailures, uncaught,
                                   valueKind>>
                    /\ UNCHANGED apiVars

(* Mutant: the Clear button is also disabled while a request is loading *)
ClearDisabledWhileLoading == Len(history) = 0 \/ loading

(* disabled={history.length === 0} of the Clear button *)
ClearDisabled == Len(history) = 0

(* clearHistory: the Clear button is disabled on an empty history *)
ClearHistory ==
    /\ Alive
    /\ ~ClearDisabled
    /\ \E confirmed \in BOOLEAN, ok \in WriteOutcomes :
        IF confirmed
        THEN /\ history' = <<>>
             /\ valueKind' = "array"
             /\ stored' = Persist(<<>>, stored, ok)
             /\ writeOk' = ok
             /\ answer' = <<>>
             /\ error' = <<>>
             /\ failedQ' = <<>>
             /\ last' = Did("clear")
             /\ writeFailures' = writeFailures + Failed(ok)
             /\ uncaught' = WriteEscape(ok)
             /\ UNCHANGED <<question, loading, pending, nextId>>
             /\ UNCHANGED apiVars
        ELSE Ignored

(* Mutant: removes the entry and everything older *)
CutFromId(h, entryId) ==
    LET k == FindIndex(h, entryId)
    IN  IF k = 0 THEN h ELSE SubSeq(h, 1, k - 1)

(* Per-item delete of the sidebar: the entries whose id differs *)
RemoveById(h, entryId) == FilterOutId(h, entryId)

DeleteEntry ==
    \E entryId \in ClickableIds, ok \in WriteOutcomes :
        /\ Alive
        /\ writeFailures' = writeFailures + Failed(ok)
        /\ history' = RemoveById(history, entryId)
        /\ stored' = Persist(RemoveById(history, entryId), stored, ok)
        /\ writeOk' = ok
        /\ last' = DidTo("delete", entryId)
        /\ uncaught' = WriteEscape(ok)
        /\ UNCHANGED <<question, answer, loading, error, pending, nextId,
                       failedQ, valueKind>>
        /\ UNCHANGED apiVars

(* The page is loaded again: the view is mounted anew on what the storage
   holds now; the fields of the old page and its request in flight are gone *)
Reload ==
    \E ok \in WriteOutcomes :
        LET m == MountOf(stored, ok)
        IN  /\ question' = <<>>
            /\ answer' = <<>>
            /\ loading' = FALSE
            /\ error' = <<>>
            /\ history' = m.history
            /\ valueKind' = m.valueKind
            /\ stored' = m.stored
            /\ writeOk' = m.writeOk
            /\ writeFailures' = writeFailures + m.failures
            /\ pending' = <<>>
            /\ failedQ' = <<>>
            /\ uncaught' = m.uncaught
            /\ last' = m.last
            /\ UNCHANGED nextId
            /\ UNCHANGED apiVars

Next ==
    \/ SetQuestion
    \/ SubmitForm
    \/ OnTextareaKeyDown
    \/ Retry
    \/ AskResolves
    \/ AskRejects
    \/ LoadFromHistory
    \/ ClearHistory
    \/ DeleteEntry

Spec == Init /\ [][Next]_vars

(* The same program, started on a stored history of HistoryCap entries *)
SpecFull == InitFull /\ [][Next]_vars

(* Page sessions one after the other: submitting, the response and clearing,
   which change the history, with the page loaded again at any moment,
   started on an empty storage or on a stored history *)
ReloadStorage == {Absent, JSONstringify(StoredHistory(MaxInitLen))}

InitReload == Mounted(ReloadStorage) /\ StubbedApi

NextReload ==
    \/ SetQuestion
    \/ SubmitForm
    \/ AskResolves
    \/ ClearHistory
    \/ Reload

SpecReload == InitReload /\ [][NextReload]_vars

----------------------------------------------------------------------------
(* services/api wired to its caller.  A step of the call that settles it
   resumes the handleSubmit that awaits it, when there is one; a call made
   directly leaves the view alone and its settled promise stays readable. *)

(* The continuation of handleSubmit on the settled call c *)
Resume(c) ==
    IF c.result.kind = "resolved"
    THEN \E ts \in Timestamps, ok \in WriteOutcomes :
            Resolved(1, c.result.value, ts, ok)
    ELSE Rejected(1, [hasMessage |-> TRUE, message |-> c.result.message])

(* The call moves to c *)
ClientStep(c) ==
    IF c.stage = "settled" /\ pending # <<>>
    THEN client' = IdleClient /\ Resume(c)
    ELSE client' = c /\ UNCHANGED appVars

(* askQuestion(arg) called directly, as the tests of the client do *)
ApiCall ==
    /\ client.stage \in {"idle", "settled"}
    /\ pending = <<>>
    /\ \E arg \in ApiArgs : client' = StartCall(arg)
    /\ UNCHANGED <<appVars, env, seen>>

(* The 800 ms timer of askQuestionMock fires *)
LatencyElapses ==
    /\ client.stage = "latency"
    /\ ClientStep(AfterLatency(client))
    /\ seen' = seen \cup
                {[question |-> client.arg.s,
                  answer   |-> AfterLatency(client).result.value,
                  again    |-> \E p \in seen : p.question = client.arg.s]}
    /\ UNCHANGED env

(* fetch rejects: the network failed *)
FetchRejects ==
    /\ client.stage = "fetching"
    /\ ClientStep(AfterFetchRejects(client, FetchTypeError))
    /\ UNCHANGED <<env, seen>>

(* fetch resolves with the head of a response *)
HeadersArrive ==
    /\ client.stage = "fetching"
    /\ \E resp \in HttpResponses : ClientStep(AfterHeaders(client, resp))
    /\ UNCHANGED <<env, seen>>

(* res.json() or res.text() has read the body *)
BodyArrives ==
    /\ client.stage = "reading"
    /\ \E body \in HttpBodies : ClientStep(AfterBody(client, body))
    /\ UNCHANGED <<env, seen>>

(* The abort timer fires while the request is in flight *)
TimerFires ==
    /\ client.timer = "armed"
    /\ client.stage \in {"fetching", "reading"}
    /\ ClientStep(AfterAbort(client))
    /\ UNCHANGED <<env, seen>>

(* The client alone: the page is mounted, askQuestion is called directly *)
InitApi ==
    /\ Mounted({Absent})
    /\ env \in EnvValues
    /\ client = IdleClient
    /\ seen = {}

NextApi ==
    \/ ApiCall
    \/ LatencyElapses
    \/ FetchRejects
    \/ HeadersArrive
    \/ BodyArrives
    \/ TimerFires

SpecApi == InitApi /\ [][NextApi]_vars

(* The builds of the view: without a backend, and with one *)
WiredEnv == { e \in EnvValues : e.defined <=> e.value # "" }

(* The view on the client of services/api *)
InitWired ==
    /\ Mounted(WiredStorage)
    /\ env \in WiredEnv
    /\ client = IdleClient
    /\ seen = {}

NextWired ==
    \/ SetQuestion
    \/ SubmitForm
    \/ OnTextareaKeyDown
    \/ Retry
    \/ LoadFromHistory
    \/ ClearHistory
    \/ DeleteEntry
    \/ LatencyElapses
    \/ FetchRejects
    \/ HeadersArrive
    \/ BodyArrives
    \/ TimerFires

SpecWired == InitWired /\ [][NextWired]_vars

(* Timers fire: the browser runs a due setTimeout callback.  Nothing makes a
   server answer or a network fail. *)
SpecWiredFair ==
    /\ SpecWired
    /\ WF_vars(LatencyElapses)
    /\ WF_vars(TimerFires)

----------------------------------------------------------------------------
(* What the answer section renders *)

AlertShown == error # <<>>

RetryShown == error # <<>>

RetryEnabled == RetryShown /\ ~(Trim(question) = <<>> \/ loading)

PlaceholderShown == error = <<>> /\ answer = <<>> /\ ~loading

(* Mutant: the answer panel does not look at the error *)
AnswerShownIgnoringError == answer # <<>> \/ loading

AnswerShown == error = <<>> /\ (answer # <<>> \/ loading)

----------------------------------------------------------------------------
(* Properties *)

(* t is q without its leading and trailing whitespace, stated without Trim *)
IsTrimOf(t, q) ==
    \E i, j \in 0..Len(q) :
        /\ i + j <= Len(q)
        /\ t = SubSeq(q, i + 1, Len(q) - j)
        /\ \A k \in 1..i : q[k] \in Whitespace
        /\ \A k \in (Len(q) - j + 1)..Len(q) : q[k] \in Whitespace
        /\ t # <<>> => (t[1] \notin Whitespace /\ t[Len(t)] \notin Whitespace)
        /\ t = <<>> => i + j = Len(q)

Ids(h) == { h[i].id : i \in 1..Len(h) }

(* C1: the history, in memory and as persisted under 'qa_history', never
   holds more than 200 entries. *)
C1_HistoryWithinCap ==
    /\ Len(history) <= HistoryCap
    /\ stored.kind = "json" => Len(stored.val) <= HistoryCap

(* C2: a successful submission into a history of 200 entries leaves the new
   entry at index 0 followed by the 199 most recent previous entries in their
   order; the oldest previous entry is gone. *)
C2_InsertAtCapEvictsOldest ==
    [][(last'.op = "success" /\ Len(history) = HistoryCap) =>
          /\ Len(history') = HistoryCap
          /\ history'[1].id \notin Ids(history)
          /\ SubSeq(history', 2, HistoryCap) = SubSeq(history, 1, HistoryCap - 1)
          /\ history[HistoryCap] \notin { history'[i] : i \in 1..Len(history') }
      ]_vars

(* C3: a successful submission of question q answered with a puts an entry
   with question = trim(q) and answer = a at index 0, and every entry the
   history held before follows it in unchanged order, whatever the
   timestamps. *)
C3_NewestFirstByInsertion ==
    [][last'.op = "success" =>
          /\ \E i \in 1..Len(pending) :
                IsTrimOf(history'[1].question, pending[i].question)
          /\ history'[1].answer = last'.response
          /\ Tail(history') = history
      ]_vars

C3_Witness ==
    /\ last.op = "success"
    /\ Len(history) >= 3
    /\ history[1].question = <<"a">>
    /\ history[1].answer = <<"B">>
    /\ \E i \in 2..Len(history) : history[i].timestamp > history[1].timestamp

(* C4: deleting one entry by its id removes exactly that entry; all other
   entries stay, in the same relative order. *)
C4_DeleteRemovesExactlyOne ==
    [][last'.op = "delete" =>
          \E k \in 1..Len(history) :
              /\ history[k].id = last'.entryId
              /\ history' = RemoveAt(history, k)
      ]_vars

C4_Witness ==
    /\ last.op = "delete"
    /\ Len(history) >= 2
    /\ last.entryId \notin Ids(history)
    /\ \E i \in 1..(Len(history) - 1) :
          history[i].id > last.entryId /\ last.entryId > history[i + 1].id

(* C5, as claimed: after a confirmed clear the in-memory history is empty and
   so is the value persisted under 'qa_history'. *)
C5_ClearEmptiesBoth ==
    last.op = "clear" => (history = <<>> /\ stored = JSONstringify(<<>>))

(* C5, amended: after a confirmed clear the in-memory history is empty, and
   the value persisted under 'qa_history' is the empty list whenever the
   storage write of the persist effect succeeded. *)
C5_ClearEmptiesBothWhenWritten ==
    last.op = "clear" =>
        /\ history = <<>>
        /\ writeOk => stored = JSONstringify(<<>>)

C5_Witness ==
    /\ last.op = "clear"
    /\ writeOk
    /\ history = <<>>
    /\ stored = JSONstringify(<<>>)
    /\ nextId > 1

(* C6: at most one askQuestion call is in flight at any time, and only while
   loading is true: no submit, Enter or retry starts a second one. *)
C6_OneRequestInFlight ==
    /\ Len(pending) <= 1
    /\ loading <=> Len(pending) = 1

C6_Witness ==
    /\ loading
    /\ Len(pending) = 1
    /\ Trim(question) # <<>>
    /\ question # pending[1].question
    /\ last.op = "type"

(* C7, as claimed: when a submission fails the question field keeps its
   content, the history and the persisted value are unchanged, an error is
   displayed and the retry action is enabled. *)
C7_FailureEnablesRetry ==
    [][last'.op = "failure" =>
          /\ question' = question
          /\ history' = history
          /\ stored' = stored
          /\ AlertShown'
          /\ RetryEnabled'
      ]_vars

(* C7, amended: when a submission fails the question field keeps its content,
   the history and the persisted value are unchanged, an error is displayed
   with the Retry button, and the retry action is enabled exactly when the
   question field holds a non-whitespace character. *)
C7_FailureKeepsInputShowsRetry ==
    [][last'.op = "failure" =>
          /\ question' = question
          /\ history' = history
          /\ stored' = stored
          /\ AlertShown'
          /\ RetryShown'
          /\ RetryEnabled' <=> (\E k \in 1..Len(question) : question[k] \notin Whitespace)
      ]_vars

C7_Witness ==
    /\ last.op = "failure"
    /\ AlertShown
    /\ RetryEnabled
    /\ history # <<>>
    /\ stored = JSONstringify(history)

(* C8, as claimed: the question a retry passes to askQuestion equals the
   question the failed submission passed, whatever the user did in between. *)
C8_RetrySendsFailedQuestion ==
    [][last'.op = "retry" => pending'[Len(pending')].asked = failedQ]_vars

(* C8, amended: a retry passes to askQuestion the content the question field
   has at the time of the retry, without its leading and trailing whitespace;
   it is the failed submission's question when the field still trims to
   it. *)
C8_RetrySendsCurrentField ==
    [][last'.op = "retry" =>
          /\ Len(pending') = 1
          /\ pending'[1].question = question
          /\ IsTrimOf(pending'[1].asked, question)
          /\ IsTrimOf(failedQ, question) => pending'[1].asked = failedQ
      ]_vars

C8_Witness ==
    /\ last.op = "retry"
    /\ loading
    /\ Len(pending) = 1
    /\ pending[1].asked = <<"a">>
    /\ pending[1].question # pending[1].asked

(* C9: when a submission succeeds exactly one new entry is added to the
   history, the displayed answer (the answer state) is the response, the
   question field becomes empty and loading becomes false. *)
C9_SuccessAddsOneEntry ==
    [][last'.op = "success" =>
          /\ Len(history') = Len(history) + 1
          /\ \A i \in 1..Len(history) : history'[i + 1] = history[i]
          /\ history'[1].id \notin Ids(history)
          /\ answer' = last'.response
          /\ question' = <<>>
          /\ loading' = FALSE
      ]_vars

C9_Witness ==
    /\ last.op = "success"
    /\ answer = <<"B">>
    /\ AnswerShown
    /\ question = <<>>
    /\ ~loading
    /\ Len(history) >= 2

(* C10: when askQuestion rejects with any error the app shows an alert whose
   text contains 'Failed to get an answer', shows no answer and no answer
   placeholder, and shows a Retry button. *)
C10_FailureShowsFailedToGetAnAnswer ==
    last.op = "failure" =>
        /\ AlertShown
        /\ Contains(error, FailedPhrase)
        /\ ~AnswerShown
        /\ ~PlaceholderShown
        /\ RetryShown

(* C11: in remote mode a non-2xx response makes the call reject with a
   message that carries the status code and the status text of the response
   and, when there is one, the server's message (the JSON message or error
   field, or the raw text body). *)
C11_NonOkCarriesStatusAndBody ==
    (client.stage = "settled" /\ client.response.arrived
        /\ ~client.response.ok) =>
        /\ client.result.kind = "rejected"
        /\ Contains(client.result.message, <<client.response.status>>)
        /\ Contains(client.result.message, client.response.statusText)
        /\ LET m == ServerMessage(client.response, client.body)
           IN  m # <<>> => Contains(client.result.message, m)

(* C12: in remote mode a call whose abort timer fired rejects with the
   'Request timed out' message, and a call rejects with that message only
   when its timer fired: not on a non-2xx response, whatever its status text
   or body, not on a network failure, not on a malformed response. *)
C12_TimedOutMessageIffTimerFired ==
    client.stage = "settled" =>
        (client.timer = "fired" <=>
            (client.result.kind = "rejected"
                /\ client.result.message = TimedOutMessage))

(* The response body is JSON whose answer field is a string *)
HasStringAnswer(body) ==
    body.arrived /\ body.parses /\ ~body.isNull
        /\ body.answer.type = "string"

(* C13: in remote mode a settled call has resolved if and only if a 2xx
   response arrived with a JSON body whose answer field is a string, and it
   then resolved to exactly that string; every other 2xx body rejects. *)
C13_ResolvesIffOkWithStringAnswer ==
    (client.stage = "settled" /\ ~isMock /\ client.arg.isString
        /\ client.arg.s # <<>>) =>
        LET good == client.response.arrived /\ client.response.ok
                        /\ HasStringAnswer(client.body)
        IN  /\ client.result.kind = "resolved" <=> good
            /\ good => client.result.value = client.body.answer.s
            /\ ~good => client.result.kind = "rejected"

C13_Witness ==
    /\ ~isMock
    /\ client.stage = "settled"
    /\ client.response.ok
    /\ client.body.answer = StringField(<<"B">>)
    /\ client.result = Resolve(<<"B">>, "server")

(* C14: askQuestion called with the empty string or with a value that is no
   string rejects with the invalid-input error, and has sent no HTTP request
   and started no timer, in mock mode and in remote mode. *)
C14_InvalidInputRejectsWithoutRequest ==
    (client.stage \notin {"idle", "stubbed"}
        /\ (~client.arg.isString \/ client.arg.s = <<>>)) =>
        /\ client.stage = "settled"
        /\ client.result = Reject(InvalidInputMessage)
        /\ client.posts = 0
        /\ client.latencyTimers = 0
        /\ client.timer = "none"

C14_Witness ==
    /\ ~isMock
    /\ client.stage = "settled"
    /\ client.arg = NumberArg
    /\ client.result = Reject(InvalidInputMessage)
    /\ client.posts = 0

(* C15: in mock mode a call with a non-empty question string never rejects:
   it resolves to a string that contains the question; and calls with the
   same question resolve to the same string. *)
C15_MockResolvesWithQuestion ==
    /\ (isMock /\ client.stage = "settled" /\ client.arg.isString
            /\ client.arg.s # <<>>) =>
            /\ client.result.kind = "resolved"
            /\ Contains(client.result.value, client.arg.s)
    /\ \A p, q \in seen : p.question = q.question => p.answer = q.answer

C15_Witness ==
    /\ isMock
    /\ client.stage = "settled"
    /\ client.arg = StringArg(<<"a">>)
    /\ client.result.kind = "resolved"
    /\ \E p \in seen : p.question = <<"a">> /\ p.again

(* C16: the mode is the one REACT_APP_API_URL gives: mock exactly when the
   variable is not set or is empty; a call in mock mode sends no HTTP request
   and arms no abort timer, a call in remote mode starts no mock timer and
   does not resolve to the placeholder of the mock. *)
C16_ModeFollowsEnvironment ==
    LET unconfigured == ~env.defined \/ env.value = ""
    IN  /\ isMock <=> unconfigured
        /\ unconfigured =>
            /\ client.posts = 0
            /\ client.timer = "none"
            /\ ~client.response.arrived
        /\ ~unconfigured =>
            /\ client.latencyTimers = 0
            /\ client.result.source # "mock"

C16_Witness ==
    /\ env.defined
    /\ env.value = ""
    /\ client.stage = "settled"
    /\ client.result.source = "mock"

(* The step is a handleSubmit that passed its guard, from the form, from
   Enter or from the Retry button *)
SubmitStep == last'.op \in {"submit", "retry"} /\ appVars' # appVars

(* C17: a submit or retry that passes the guard makes exactly one
   askQuestion call, which in remote mode sends exactly one POST (in mock
   mode none); no other step makes a call or sends a request, so none is
   sent after a failure until the user submits or retries again. *)
C17_OneCallOnePostPerSubmit ==
    [][/\ SubmitStep =>
            /\ Len(pending') = Len(pending) + 1
            /\ client.stage = "idle"
            /\ client'.posts = IF isMock THEN 0 ELSE 1
            /\ client'.latencyTimers = IF isMock THEN 1 ELSE 0
       /\ (Len(pending') > Len(pending) \/ client'.posts > client.posts
              \/ client'.latencyTimers > client.latencyTimers) => SubmitStep
       /\ client'.posts <= 1
      ]_vars

C17_Witness ==
    /\ ~isMock
    /\ last.op = "retry"
    /\ Len(pending) = 1
    /\ client.stage = "fetching"
    /\ client.posts = 1

(* C18: every submission terminates: when loading is set and a call is
   pending, the call settles and loading is reset, provided due timers fire
   (the mock latency, the abort timer). *)
C18_SubmissionTerminates ==
    (loading \/ pending # <<>>) ~> (~loading /\ pending = <<>>)

C18_Witness ==
    /\ ~isMock
    /\ last.op = "failure"
    /\ last.message = TimedOutMessage
    /\ ~loading
    /\ pending = <<>>

(* C19: after the mount, when the key was missing, its content was no JSON
   or reading the storage threw, the value of the hook is the default it was
   given (the empty history) and no exception has left the hook. *)
C19_MountFallsBackToDefault ==
    (last.op = "mount" /\ last.raw \in {"absent", "corrupt", "unreadable"}) =>
        /\ history = <<>>
        /\ uncaught = "none"

C19_Witness ==
    /\ last.op = "mount"
    /\ last.raw = "unreadable"
    /\ history = <<>>
    /\ uncaught = "none"

(* C20: when the last write to storage succeeded, the content stored under
   'qa_history' is the JSON serialization of the history in memory: after the
   mount and after every submit, delete and clear, once the persist effect of
   that render has run. *)
C20_StoredIsSerializedHistory ==
    writeOk => stored = StringifyValue(valueKind, history)

C20_Witness ==
    /\ last.op = "delete"
    /\ writeOk
    /\ writeFailures = 1
    /\ history # <<>>
    /\ stored = JSONstringify(history)

(* C21: a storage write that fails is not surfaced: the submit, delete or
   clear that caused it still changes the history in memory, no exception
   leaves the hook, the error message of the view is not set, and the stored
   content stays what it was. *)
C21_FailedWriteIsSilent ==
    [][writeFailures' > writeFailures =>
          /\ ~writeOk'
          /\ stored' = stored
          /\ uncaught' = "none"
          /\ error' # <<>> => error' = error
          /\ last'.op = "success" => Len(history') = Len(history) + 1
          /\ last'.op = "delete" => Len(history') = Len(history) - 1
          /\ last'.op = "clear" => (history' = <<>> /\ history # <<>>)
          /\ last'.op \in {"success", "delete", "clear"}
      ]_vars

C21_Witness ==
    /\ last.op = "success"
    /\ ~writeOk
    /\ writeFailures = 1
    /\ Len(history) = 2
    /\ stored = JSONstringify(SubSeq(history, 2, 2))
    /\ error = <<>>
    /\ uncaught = "none"

(* C22: a functional update whose function throws leaves the value as it
   was, in memory and in storage, and raises nothing: here the update of the
   view, setHistory((prev) => [entry, ...prev]), on a value that cannot be
   spread. *)
C22_ThrowingUpdaterKeepsValue ==
    [][(Len(pending') < Len(pending) /\ last'.op \in {"success", "crash"}
            /\ SpreadThrows(valueKind)) =>
          /\ history' = history
          /\ valueKind' = valueKind
          /\ stored' = stored
          /\ uncaught' = "none"
      ]_vars

(* C29: in every state the history in memory is a list of entries, and so is
   the content stored under 'qa_history' when it is JSON, whatever the key
   held at mount. *)
C29_HistoryIsAList ==
    /\ valueKind = "array"
    /\ stored \notin NonArrayJson

(* C23: whenever the history is not empty, loading an entry, deleting an
   entry and clearing are enabled and have their effect, whatever the state of
   the submission: idle, loading, answered or failed. *)
C23_HistoryActionsAlwaysAvailable ==
    (Alive /\ history # <<>>) =>
        /\ \A k \in 1..Len(history) :
              /\ ENABLED (/\ LoadFromHistory
                          /\ question' = history[k].question
                          /\ answer' = history[k].answer
                          /\ error' = <<>>
                          /\ loading' = loading)
              /\ ENABLED (/\ DeleteEntry
                          /\ history' = RemoveById(history, history[k].id)
                          /\ loading' = loading)
        /\ ENABLED (/\ ClearHistory
                    /\ history' = <<>>
                    /\ loading' = loading)

C23_Witness ==
    /\ loading
    /\ pending # <<>>
    /\ last.op = "load"
    /\ history # <<>>
    /\ answer = history[1].answer

(* C24: a load takes effect only for an id the history holds; it puts that
   entry's question into the field and its answer on display, clears the
   error, and leaves the history, the stored value and the pending request
   as they were. *)
C24_LoadShowsStoredEntry ==
    [][last'.op = "load" =>
          LET k == FindIndex(history, last'.entryId)
          IN  /\ k # 0
              /\ question' = history[k].question
              /\ answer' = history[k].answer
              /\ error' = <<>>
              /\ history' = history
              /\ stored' = stored
              /\ writeFailures' = writeFailures
              /\ loading' = loading
              /\ pending' = pending ]_vars

C24_Witness ==
    /\ last.op = "load"
    /\ Len(history) = 2
    /\ last.entryId = history[2].id
    /\ question = history[2].question
    /\ answer = history[2].answer
    /\ question # history[1].question
    /\ error = <<>>

HasNonWhitespace(q) == \E i \in 1..Len(q) : q[i] \notin Whitespace

(* C25: submit is enabled exactly when the field holds a character that is
   not whitespace and no request is loading; every request that is started
   starts from such a state and carries the field without its leading and
   trailing whitespace, so a whitespace-only field never causes a request. *)
C25_SubmitGuardAndTrimmedArgument ==
    /\ [](CanSubmit <=> (HasNonWhitespace(question) /\ ~loading))
    /\ [][Len(pending') > Len(pending) =>
            /\ CanSubmit
            /\ HasNonWhitespace(question)
            /\ Len(pending') = Len(pending) + 1
            /\ IsTrimOf(pending'[Len(pending')].asked, question)
            /\ pending'[Len(pending')].asked # <<>> ]_vars

C25_Witness ==
    /\ last.op = "submit"
    /\ loading
    /\ ~CanSubmit
    /\ question = <<" ", "a", "\n">>
    /\ Len(pending) = 1
    /\ pending[1].asked = <<"a">>

(* C26: when the page is loaded again after the history was persisted, the
   mount reads back the same list: the same entries, with the same id,
   question, answer and timestamp, in the same order. *)
C26_ReloadReadsBackHistory ==
    [][(last'.op = "mount" /\ writeOk /\ valueKind = "array") =>
          /\ history' = history
          /\ Len(history') = Len(history)
          /\ \A i \in 1..Len(history) :
                /\ DOMAIN history'[i] = {"id", "question", "answer", "timestamp"}
                /\ history'[i].id = history[i].id
                /\ history'[i].question = history[i].question
                /\ history'[i].answer = history[i].answer
                /\ history'[i].timestamp = history[i].timestamp
          /\ valueKind' = "array" ]_vars

C26_Witness ==
    /\ last.op = "mount"
    /\ last.raw = "json"
    /\ Len(history) = 2
    /\ history[1].id = 1
    /\ history[1].question = <<"a">>
    /\ history[1].answer = <<"B">>
    /\ history[2].id = -1
    /\ nextId = 2
    /\ writeOk
    /\ question = <<>>

(* C27: the entry a successful submission adds records the question that was
   passed with that request and the answer returned for it, whatever the
   question field holds when the response arrives. *)
C27_EntryRecordsRequestedQuestion ==
    [][(last'.op = "success" /\ Len(pending') < Len(pending)) =>
          \E i \in 1..Len(pending) :
              /\ pending' = RemoveAt(pending, i)
              /\ Len(history') = Len(history) + 1
              /\ history'[1].question = pending[i].asked
              /\ history'[1].answer = last'.response ]_vars

C27_Witness ==
    /\ last.op = "success"
    /\ history # <<>>
    /\ history[1].question = <<"a">>
    /\ last.field = <<"b">>
    /\ question = <<>>
    /\ history[1].answer = last.response

(* C28, as claimed: the error message and the answer are never both
   non-empty. *)
C28_ErrorAndAnswerExclusive == ~(error # <<>> /\ answer # <<>>)

(* C28, amended: the alert and the answer panel are never rendered together.
   The error and the answer become both non-empty only when a submission
   fails while the view holds an answer loaded from the history during that
   submission; the failure keeps that answer, hidden behind the alert. *)
C28_AlertHidesAnswer ==
    /\ [](~(AlertShown /\ AnswerShown))
    /\ [][(error' # <<>> /\ answer' # <<>> /\ ~(error # <<>> /\ answer # <<>>)) =>
            /\ last'.op = "failure"
            /\ loading
            /\ error = <<>>
            /\ answer' = answer ]_vars
    /\ [][(loading' /\ answer' # <<>> /\ ~(loading /\ answer # <<>>)) =>
            /\ last'.op = "load"
            /\ loading
            /\ \E k \in 1..Len(history) : history[k].answer = answer' ]_vars

C28_Witness ==
    /\ last.op = "failure"
    /\ error # <<>>
    /\ answer # <<>>
    /\ AlertShown
    /\ ~AnswerShown
    /\ ~PlaceholderShown

====
